---- MODULE Spec2Model ----
(***************************************************************************)
(* A model of the two stateful subsystems of spotify_mcp:                  *)
(*                                                                         *)
(*   - the playback monitor of server.py (monitor_playback_state,          *)
(*     _has_significant_change, start_notifications, stop_notifications),  *)
(*     an asyncio task polling the playback state;                         *)
(*   - the get-all pagination loops of server.py (PaginatedSearch,         *)
(*     PlaylistPagination, LibraryOperations) and of fastmcp_server.py     *)
(*     (get_playlist_tracks_paginated).                                    *)
(*                                                                         *)
(* Python values are encoded uniformly: None, True and False of a          *)
(* non-numeric field are the strings "None", "True", "False"; a null       *)
(* numeric field is NoneNum; a dict is a record whose DOMAIN is its key    *)
(* set; an Optional[dict] is a sequence of length 0 (None) or 1.           *)
(***************************************************************************)
EXTENDS Integers, Sequences, FiniteSets, TLC

VARIABLES
    \* ---- monitor (server.py) ----
    _notification_task,     \* module global: 0 (None) or a task id
    _last_playback_state,   \* module global: <<>> (None) or <<state dict>>
    tasks,                  \* asyncio tasks created by start_notifications
    stopCall,               \* the stop_notifications() coroutine in flight
    tickLog,                \* per tick of the newest task: sample ok, sink calls
    lastTick,               \* what the most recent tick saw and did
    lastStart,              \* what the most recent start_notifications() did
    \* ---- aggregation (server.py, fastmcp_server.py) ----
    agg,                    \* the get-all loop in flight
    \* ---- a call of _has_significant_change on its own ----
    cmp,                    \* its arguments and its return value
    \* ---- one tool call (server.py handle_call_tool, fastmcp_server.py) ----
    call                    \* its name, arguments, position and response

vars == <<_notification_task, _last_playback_state, tasks, stopCall,
          tickLog, lastTick, lastStart, agg, cmp, call>>

(***************************************************************************)
(* Bounds of the model.                                                    *)
(***************************************************************************)
MaxTasks == 2       \* tasks start_notifications may create in one run
MaxTicks == 3       \* ticks explored per task
MaxFetch == 201     \* page fetches explored per aggregation
MaxChaos == 3       \* pages an arbitrary backend serves before an empty one

(***************************************************************************)
(* Python value encoding.                                                  *)
(***************************************************************************)
NoneNum == -1
NoTask == 0

Get(d, k) == IF k \in DOMAIN d THEN d[k] ELSE "None"
GetNum(d, k) == IF k \in DOMAIN d THEN d[k] ELSE NoneNum
OrZero(v) == IF v = NoneNum THEN 0 ELSE v
Abs(x) == IF x < 0 THEN 0 - x ELSE x

(***************************************************************************)
(* _has_significant_change (server.py 1999-2032).                          *)
(***************************************************************************)
VolumeThreshold == 5
ProgressThreshold == 10000

\* Mutant: the thresholds are not strict.
_has_significant_change_NonStrict(old_state, new_state) ==
    \/ Get(old_state, "is_playing") # Get(new_state, "is_playing")
    \/ Get(old_state, "track_id") # Get(new_state, "track_id")
    \/ Get(old_state, "device_name") # Get(new_state, "device_name")
    \/ Get(old_state, "shuffle_state") # Get(new_state, "shuffle_state")
    \/ Get(old_state, "repeat_state") # Get(new_state, "repeat_state")
    \/ Abs(OrZero(GetNum(old_state, "volume_percent"))
           - OrZero(GetNum(new_state, "volume_percent"))) >= VolumeThreshold
    \/ Abs(OrZero(GetNum(old_state, "progress_ms"))
           - OrZero(GetNum(new_state, "progress_ms"))) >= ProgressThreshold

\* Mutant: the numeric differences are taken without abs().
_has_significant_change_Directed(old_state, new_state) ==
    \/ Get(old_state, "is_playing") # Get(new_state, "is_playing")
    \/ Get(old_state, "track_id") # Get(new_state, "track_id")
    \/ Get(old_state, "device_name") # Get(new_state, "device_name")
    \/ Get(old_state, "shuffle_state") # Get(new_state, "shuffle_state")
    \/ Get(old_state, "repeat_state") # Get(new_state, "repeat_state")
    \/ OrZero(GetNum(old_state, "volume_percent"))
           - OrZero(GetNum(new_state, "volume_percent")) > VolumeThreshold
    \/ OrZero(GetNum(old_state, "progress_ms"))
           - OrZero(GetNum(new_state, "progress_ms")) > ProgressThreshold

_has_significant_change(old_state, new_state) ==
    \/ Get(old_state, "is_playing") # Get(new_state, "is_playing")
    \/ Get(old_state, "track_id") # Get(new_state, "track_id")
    \/ Get(old_state, "device_name") # Get(new_state, "device_name")
    \/ Get(old_state, "shuffle_state") # Get(new_state, "shuffle_state")
    \/ Get(old_state, "repeat_state") # Get(new_state, "repeat_state")
    \/ Abs(OrZero(GetNum(old_state, "volume_percent"))
           - OrZero(GetNum(new_state, "volume_percent"))) > VolumeThreshold
    \/ Abs(OrZero(GetNum(old_state, "progress_ms"))
           - OrZero(GetNum(new_state, "progress_ms"))) > ProgressThreshold

(***************************************************************************)
(* The playback sampler: spotify_client.sp.current_playback() raises,      *)
(* returns None (no active session) or returns a playback dict.            *)
(***************************************************************************)
Playback(item_id, progress_ms) ==
    [is_playing |-> "True", item_id |-> item_id, progress_ms |-> progress_ms,
     device_name |-> "Phone", shuffle_state |-> "False",
     repeat_state |-> "off", volume_percent |-> 50]

Playbacks ==
    {Playback("A", 0), Playback("A", 6000), Playback("A", 12000),
     Playback("B", 0)}

Samples ==
    {[kind |-> "raise"], [kind |-> "none"]}
        \cup {[kind |-> "playback", pb |-> p] : p \in Playbacks}

\* server.py 1965-1976: the comparable state built from a sample.
MakeState(sample) ==
    IF sample.kind = "playback"
    THEN [is_playing |-> sample.pb.is_playing,
          track_id |-> sample.pb.item_id,
          progress_ms |-> sample.pb.progress_ms,
          device_name |-> sample.pb.device_name,
          shuffle_state |-> sample.pb.shuffle_state,
          repeat_state |-> sample.pb.repeat_state,
          volume_percent |-> sample.pb.volume_percent]
    ELSE [is_playing |-> "False", track_id |-> "None"]

\* Mutant: every successful sample notifies (the comparison is skipped).
ShouldNotify_Always(last, current_state) == TRUE

\* Mutant: the condition lacks the `is None` test.
ShouldNotify_DetectorOnly(last, current_state) ==
    Len(last) = 1 /\ _has_significant_change(last[1], current_state)

\* server.py 1979: the condition under which the tick notifies.
ShouldNotify(last, current_state) ==
    \/ Len(last) = 0
    \/ _has_significant_change(last[1], current_state)

PollInterval == 5
ErrorBackoff == 10
Topic == "spotify://playback/current"

(***************************************************************************)
(* asyncio tasks.  st: "unborn" (id not used yet), "pending", "done".      *)
(* pc: where the coroutine is suspended: "created" (not run yet), "send"   *)
(* (await server.send_resource_updated), "sleep" (await asyncio.sleep).    *)
(***************************************************************************)
TaskIds == 1..MaxTasks

FreshTask ==
    [st |-> "unborn", pc |-> "created", must_cancel |-> FALSE,
     current_state |-> <<>>, dur |-> 0]

\* lastTick: ok (the sample was obtained), state (the state built from it),
\* sink (the topics the sink was called with), outcome of the sink call
\* ("none", "inflight", "delivered", "failed", "cancelled"); and two
\* history fields: calm ("start": no tick yet; "first": one tick, its sample
\* obtained; "steady": every sample so far was obtained and each is a
\* normal progression of the one before it; "broken": otherwise) and
\* attempt (the state of the most recent tick that called the sink), kind
\* (what the sampler did: "raise", "none", "playback"; "" before any tick)
\* and none_calls (the sink calls of the current run of consecutive "none"
\* samples).
NoTick ==
    [ok |-> FALSE, state |-> <<>>, sink |-> <<>>, outcome |-> "none",
     calm |-> "start", attempt |-> <<>>, kind |-> "", none_calls |-> 0]

\* stopCall: pc ("idle": no stop_notifications() in flight, "await": it
\* awaits the task it cancelled), task (the task it cancelled) and started
\* (a start_notifications() ran while it was awaiting).
NoStop == [pc |-> "idle", task |-> NoTask, started |-> FALSE]

AggIdle == [pc |-> "idle"]

CmpIdle == [pc |-> "idle"]

CallIdle == [pc |-> "idle"]

InitMon ==
    /\ _notification_task = NoTask
    /\ _last_playback_state = <<>>
    /\ tasks = [t \in TaskIds |-> FreshTask]
    /\ stopCall = NoStop
    /\ tickLog = <<>>
    /\ lastTick = NoTick
    /\ lastStart = "none"
    /\ agg = AggIdle
    /\ cmp = CmpIdle
    /\ call = CallIdle

\* Mutant: start_notifications without its guard.
StartCreates_Always == TRUE

\* server.py 2039: start creates a task only without a live one.
StartCreates ==
    _notification_task = NoTask \/ tasks[_notification_task].st = "done"

\* server.py 2035-2041.  It has no await: it runs in one step.
start_notifications ==
    /\ IF StartCreates
       THEN \E t \in TaskIds :
              /\ tasks[t].st = "unborn"
              /\ \A u \in TaskIds : u < t => tasks[u].st # "unborn"
              /\ tasks' = [tasks EXCEPT ![t] = [FreshTask EXCEPT !.st = "pending"]]
              /\ _notification_task' = t
              /\ tickLog' = <<>>
              /\ lastStart' = "created"
       ELSE /\ lastStart' = "kept"
            /\ UNCHANGED <<tasks, _notification_task, tickLog>>
    /\ stopCall' = [stopCall EXCEPT !.started = @ \/ stopCall.pc = "await"]
    /\ UNCHANGED <<_last_playback_state, lastTick, agg, cmp, call>>

\* server.py 2048: stop cancels only a live task.
StopCancels ==
    _notification_task # NoTask /\ tasks[_notification_task].st # "done"

\* server.py 2044-2051: up to the await.  Task.cancel() only requests the
\* cancellation; the task ends when the event loop next runs it.
stop_notifications ==
    /\ stopCall.pc = "idle"
    /\ IF StopCancels
       THEN /\ tasks' = [tasks EXCEPT ![_notification_task].must_cancel = TRUE]
            /\ stopCall' = [pc |-> "await", task |-> _notification_task,
                            started |-> FALSE]
       ELSE /\ stopCall' = NoStop
            /\ UNCHANGED tasks
    /\ UNCHANGED <<_notification_task, _last_playback_state, tickLog,
                   lastTick, lastStart, agg, cmp, call>>

\* server.py 2051-2054: the await returns once the task is done; the
\* CancelledError it raises is caught.
StopReturn ==
    /\ stopCall.pc = "await"
    /\ tasks[stopCall.task].st = "done"
    /\ stopCall' = [stopCall EXCEPT !.pc = "idle"]
    /\ UNCHANGED <<_notification_task, _last_playback_state, tasks, tickLog,
                   lastTick, lastStart, agg, cmp, call>>

\* Mutant: no except clause around the tick; the error ends the task.
AfterSampleError_Propagates(task) ==
    [FreshTask EXCEPT !.st = "done"]

\* Mutant: the error path sleeps the regular interval.
AfterSampleError_NoBackoff(task) ==
    [task EXCEPT !.pc = "sleep", !.dur = PollInterval]

\* server.py 1994-1996: a sampling error is caught; the task sleeps 10 s.
AfterSampleError(task) ==
    [task EXCEPT !.pc = "sleep", !.dur = ErrorBackoff]

\* server.py 1983-1984: the tick awaits the sink with the fixed topic.
AfterNotifyCall(task, current_state) ==
    [task EXCEPT !.pc = "send", !.current_state = <<current_state>>]

\* server.py 1992: the regular wait.
AfterPoll(task) ==
    [task EXCEPT !.pc = "sleep", !.dur = PollInterval, !.current_state = <<>>]

\* Two consecutive states of an undisturbed playback: the same fields with
\* the same values, but for progress_ms, which moved by at most 10 s.
NormalProgress(old_state, new_state) ==
    /\ DOMAIN old_state = DOMAIN new_state
    /\ \A k \in DOMAIN old_state \ {"progress_ms"} :
          old_state[k] = new_state[k]
    /\ Abs(GetNum(old_state, "progress_ms")
           - GetNum(new_state, "progress_ms")) <= ProgressThreshold

\* The calm field of a tick that follows the tick `prev`.
NextCalm(prev, ok, current_state) ==
    CASE ~ok -> "broken"
      [] prev.calm = "start" -> "first"
      [] prev.calm \in {"first", "steady"}
           /\ NormalProgress(prev.state[1], current_state[1]) -> "steady"
      [] OTHER -> "broken"

\* The none_calls field of a tick that follows the tick `prev`.
NoneCalls(prev, kind, calls) ==
    IF kind = "none"
    THEN (IF prev.kind = "none" THEN prev.none_calls ELSE 0) + calls
    ELSE 0

\* server.py 1959-1996: one iteration of the loop, from the wake-up (or the
\* first run) to its next await.  current_playback() is a blocking call, so
\* sampling, building the state and comparing happen in one step.
MonitorTick(t) ==
    /\ tasks[t].st = "pending"
    /\ ~tasks[t].must_cancel
    /\ tasks[t].pc \in {"created", "sleep"}
    /\ Len(tickLog) < MaxTicks
    /\ \E sample \in Samples :
         IF sample.kind = "raise"
         THEN /\ tasks' = [tasks EXCEPT ![t] = AfterSampleError(tasks[t])]
              /\ tickLog' = Append(tickLog, [ok |-> FALSE, calls |-> 0])
              /\ lastTick' = [ok |-> FALSE, state |-> <<>>,
                              sink |-> <<>>, outcome |-> "none",
                              calm |-> NextCalm(lastTick, FALSE, <<>>),
                              attempt |-> lastTick.attempt,
                              kind |-> sample.kind, none_calls |-> 0]
         ELSE LET current_state == MakeState(sample) IN
              IF ShouldNotify(_last_playback_state, current_state)
              THEN /\ tasks' = [tasks EXCEPT
                                  ![t] = AfterNotifyCall(tasks[t], current_state)]
                   /\ tickLog' = Append(tickLog, [ok |-> TRUE, calls |-> 1])
                   /\ lastTick' = [ok |-> TRUE, state |-> <<current_state>>,
                                   sink |-> <<Topic>>, outcome |-> "inflight",
                                   calm |-> NextCalm(lastTick, TRUE,
                                                     <<current_state>>),
                                   attempt |-> <<current_state>>,
                                   kind |-> sample.kind,
                                   none_calls |->
                                     NoneCalls(lastTick, sample.kind, 1)]
              ELSE /\ tasks' = [tasks EXCEPT ![t] = AfterPoll(tasks[t])]
                   /\ tickLog' = Append(tickLog, [ok |-> TRUE, calls |-> 0])
                   /\ lastTick' = [ok |-> TRUE, state |-> <<current_state>>,
                                   sink |-> <<>>, outcome |-> "none",
                                   calm |-> NextCalm(lastTick, TRUE,
                                                     <<current_state>>),
                                   attempt |-> lastTick.attempt,
                                   kind |-> sample.kind,
                                   none_calls |->
                                     NoneCalls(lastTick, sample.kind, 0)]
    /\ UNCHANGED <<_notification_task, _last_playback_state, stopCall,
                   lastStart, agg, cmp, call>>

\* Mutant: no try around the sink call; its error reaches the outer
\* except clause of the tick.
AfterSinkError_Outer(task) ==
    [task EXCEPT !.pc = "sleep", !.dur = ErrorBackoff, !.current_state = <<>>]

\* server.py 1986-1992: an Exception of the sink call is caught and logged;
\* the tick goes on to the regular wait.
AfterSinkError(task) == AfterPoll(task)

\* server.py 1984-1992: the sink call returns or raises an Exception (which
\* is caught at 1986); either way the snapshot is retained and the task
\* sleeps the regular interval.
SendDone(t) ==
    /\ tasks[t].st = "pending"
    /\ ~tasks[t].must_cancel
    /\ tasks[t].pc = "send"
    /\ \E result \in {"delivered", "failed"} :
         /\ lastTick' = [lastTick EXCEPT !.outcome = result]
         /\ tasks' = [tasks EXCEPT
                        ![t] = IF result = "failed"
                               THEN AfterSinkError(tasks[t])
                               ELSE AfterPoll(tasks[t])]
    /\ _last_playback_state' = tasks[t].current_state
    /\ UNCHANGED <<_notification_task, stopCall, tickLog, lastStart, agg, cmp, call>>

\* Mutant: CancelledError caught by `except Exception` (as it would be were
\* it an Exception subclass): the loop logs it, backs off and goes on.
AfterCancel_Swallowed(task) ==
    [task EXCEPT !.pc = "sleep", !.dur = ErrorBackoff, !.must_cancel = FALSE,
                 !.current_state = <<>>]

\* asyncio.CancelledError is a BaseException: neither except clause
\* (server.py 1986, 1994) catches it, so it ends the task at whichever
\* await it is thrown into.
AfterCancel(task) ==
    [FreshTask EXCEPT !.st = "done", !.must_cancel = task.must_cancel]

CancelDeliver(t) ==
    /\ tasks[t].st = "pending"
    /\ tasks[t].must_cancel
    /\ tasks' = [tasks EXCEPT ![t] = AfterCancel(tasks[t])]
    /\ lastTick' = IF tasks[t].pc = "send"
                   THEN [lastTick EXCEPT !.outcome = "cancelled"]
                   ELSE lastTick
    /\ UNCHANGED <<_notification_task, _last_playback_state, stopCall,
                   tickLog, lastStart, agg, cmp, call>>

NextMon ==
    \/ start_notifications
    \/ stop_notifications
    \/ StopReturn
    \/ \E t \in TaskIds : MonitorTick(t)
    \/ \E t \in TaskIds : SendDone(t)
    \/ \E t \in TaskIds : CancelDeliver(t)

SpecMon == InitMon /\ [][NextMon]_vars

\* The event loop runs every ready callback: a requested cancellation is
\* delivered and a waiter of a finished task is resumed.
FairSpecMon ==
    /\ SpecMon
    /\ WF_vars(\E t \in TaskIds : CancelDeliver(t))
    /\ WF_vars(StopReturn)

(***************************************************************************)
(* Pagination.  An item is its 1-based position in the remote collection;  *)
(* 0 is a playlist item whose track is null.                               *)
(***************************************************************************)
SearchMaxLimit == 50
MaxResultsCap == 10000
PlaylistMaxLimit == 100
LibraryMaxLimit == 50
FastBatchMax == 100
SafetyCeiling == 10000

Min(a, b) == IF a < b THEN a ELSE b
Max(a, b) == IF a < b THEN b ELSE a

\* The items at positions a..b (none when b < a).
Range(a, b) == [i \in 1..(b - a + 1) |-> a + i - 1]

\* Python's seq[:m].
Trim(seq, m) ==
    IF m >= 0 THEN SubSeq(seq, 1, Min(m, Len(seq)))
    ELSE SubSeq(seq, 1, Max(Len(seq) + m, 0))

\* Python's truth value of an Optional[int].
Truthy(x) == x # NoneNum /\ x # 0

(***************************************************************************)
(* The page fetcher (spotipy: search, playlist_items, playlist_tracks,     *)
(* current_user_saved_tracks, current_user_saved_albums).  Three kinds:    *)
(* "honest" holds `size` items and reports total and next correctly (and   *)
(* rejects a page size below 1); "endless" always returns a full page and  *)
(* a total above the offset; "chaos" returns any of a few pages.           *)
(***************************************************************************)
Page(items, total, next) ==
    [kind |-> "page", items |-> items, total |-> total, next |-> next]

\* What a fetch raises: spotipy's SpotifyException (an HTTP error answer) or
\* any other exception (here the transport's ConnectionError).
ExcKinds == {"SpotifyException", "ConnectionError"}

Raise(exc) == [kind |-> "raise", exc |-> exc]

HonestFetch(size, offset, limit) ==
    IF limit < 1 \/ offset < 0
    THEN {Raise("SpotifyException")}
    ELSE {Page(Range(offset + 1, Min(offset + limit, size)), size,
               offset + limit < size)}

EndlessFetch(offset, limit) ==
    {Page(Range(offset + 1, offset + Max(limit, 1)),
          offset + 2 * Max(limit, 1) + 1, TRUE)}

ChaosLens(limit) == {n \in {0, limit - 1, limit, limit + 1} : n >= 0}

ChaosFetch(tool, offset, limit, calls) ==
    IF calls >= MaxChaos
    THEN {Page(<<>>, 0, FALSE)}
    ELSE {Raise(exc) : exc \in ExcKinds}
         \cup (IF tool = "PaginatedSearch" THEN {[kind |-> "nokey"]} ELSE {})
         \cup {Page(Range(offset + 1, offset + n), t, nx) :
                    n \in ChaosLens(limit),
                    t \in {0, offset + 2 * Max(limit, 1) + 1},
                    nx \in IF tool = "FastPlaylist" THEN BOOLEAN ELSE {FALSE}}
         \cup (IF tool = "FastPlaylist"
               THEN {Page([i \in 1..n |-> 0], 0, TRUE) :
                        n \in ChaosLens(limit) \ {0}}
               ELSE {})

Fetch(backend, tool, offset, limit, calls) ==
    CASE backend.kind = "honest" -> HonestFetch(backend.size, offset, limit)
      [] backend.kind = "endless" -> EndlessFetch(offset, limit)
      [] OTHER -> ChaosFetch(tool, offset, limit, calls)

HonestSizes == {0, 1, 2, 3, 5, 150, 10002}

Backends ==
    {[kind |-> "honest", size |-> n] : n \in HonestSizes}
        \cup {[kind |-> "endless", size |-> 0], [kind |-> "chaos", size |-> 0]}

ServerTools ==
    {"PaginatedSearch", "PlaylistPagination", "SavedTracks", "SavedAlbums"}

\* server.py 1354, 1412, 1486: limit = min(int(limit), maximum).
ClampLimit(tool, limit) ==
    CASE tool = "PaginatedSearch" -> Min(limit, SearchMaxLimit)
      [] tool = "PlaylistPagination" -> Min(limit, PlaylistMaxLimit)
      [] OTHER -> Min(limit, LibraryMaxLimit)

\* server.py 1358.
ClampMaxResults(max_results) == Min(max_results, MaxResultsCap)

\* fastmcp_server.py 96.
BatchSize(limit) == IF Truthy(limit) THEN Min(limit, FastBatchMax) ELSE FastBatchMax

NoPage == [kind |-> "none", len |-> 0, exc |-> "None"]

\* The state of a get-all call at the head of its loop.
NewAgg(tool, limit, offset, max_results, backend) ==
    [pc |-> "loop", tool |-> tool, backend |-> backend,
     limit |-> limit, offset |-> offset, max_results |-> max_results,
     current_offset |-> offset, items |-> <<>>, total |-> 0,
     pages_fetched |-> 0,
     batch_size |-> IF tool = "FastPlaylist" THEN BatchSize(limit) ELSE 0,
     remaining |-> IF tool = "FastPlaylist" THEN limit ELSE NoneNum,
     calls |-> 0, fetched |-> 0, lastReq |-> [offset |-> 0, limit |-> 0],
     lastPage |-> NoPage, result |-> [none |-> TRUE]]

\* The calls explored.  handle_call_tool clamps limit and max_results from
\* any int; get_playlist_tracks takes limit None (NoneNum) or an int.
ServerCalls ==
    {NewAgg("PaginatedSearch", ClampLimit("PaginatedSearch", limit), offset,
            ClampMaxResults(m), b) :
        limit \in {0, 1, 2, 51}, offset \in {0, 1}, m \in {0, 2, 4, 10001},
        b \in Backends}
    \cup {NewAgg("PlaylistPagination", ClampLimit("PlaylistPagination", limit),
                 offset, NoneNum, b) :
            limit \in {0, 1, 2, 101}, offset \in {0, 1}, b \in Backends}
    \cup {NewAgg(tool, ClampLimit(tool, limit), offset, NoneNum, b) :
            tool \in {"SavedTracks", "SavedAlbums"}, limit \in {1, 2, 51},
            offset \in {0, 1}, b \in Backends}

FastCalls ==
    {NewAgg("FastPlaylist", limit, offset, NoneNum, b) :
        limit \in {NoneNum, 0, 1, 2, 3, 150}, offset \in {0, 1, 9901},
        b \in Backends}

InitAgg ==
    /\ _notification_task = NoTask
    /\ _last_playback_state = <<>>
    /\ tasks = [t \in TaskIds |-> FreshTask]
    /\ stopCall = NoStop
    /\ tickLog = <<>>
    /\ lastTick = NoTick
    /\ lastStart = "none"
    /\ agg \in ServerCalls \cup FastCalls
    /\ cmp = CmpIdle
    /\ call = CallIdle

\* Mutant: the response is not trimmed to max_results.
SearchResult_NoTrim(a) ==
    [items |-> a.items, total |-> a.total, pages_fetched |-> a.pages_fetched,
     returned_items |-> Len(a.items)]

\* server.py 1388-1390: the PaginatedSearch response.
SearchResult(a) ==
    LET kept == Trim(a.items, a.max_results)
    IN  [items |-> kept, total |-> a.total, pages_fetched |-> a.pages_fetched,
         returned_items |-> Len(kept)]

\* server.py 1420, 1495, 1538: the all_tracks / all_albums response.
ServerResult(a) ==
    [items |-> a.items, total |-> a.total, pages_fetched |-> a.pages_fetched]

ResultOf(a) ==
    IF a.tool = "PaginatedSearch" THEN SearchResult(a) ELSE ServerResult(a)

\* Mutant: the items accumulated before the failure are returned.
ServerError_Partial(a, exc) ==
    [raised |-> "None", text |-> "", items |-> a.items]

\* server.py 1940-1950: a SpotifyException raised inside handle_call_tool
\* is caught and answered with a text content (a normal return); any other
\* exception is logged and re-raised.  `raised` is the exception that
\* leaves the handler ("None": it returned).
ServerError(a, exc) ==
    IF exc = "SpotifyException"
    THEN [raised |-> "None",
          text |-> "An error occurred with the Spotify Client"]
    ELSE [raised |-> exc, text |-> ""]

\* fastmcp_server.py 491-492, errors.py 224-229: a SpotifyException leaves
\* get_playlist_tracks as a ValueError; any other exception is not caught.
FastError(a, exc) ==
    IF exc = "SpotifyException"
    THEN [raised |-> "ValueError", text |-> ""]
    ELSE [raised |-> exc, text |-> ""]

\* The bookkeeping of one fetch call: the calls made, the items the
\* fetcher has returned so far, the request and the size of its page.
Requested(a, limit, r) ==
    [a EXCEPT !.calls = @ + 1,
              !.fetched = @ + IF r.kind = "page" THEN Len(r.items) ELSE 0,
              !.lastReq = [offset |-> a.current_offset, limit |-> limit],
              !.lastPage = [kind |-> r.kind,
                            len |-> IF r.kind = "page" THEN Len(r.items) ELSE 0,
                            exc |-> IF r.kind = "raise" THEN r.exc ELSE "None"]]

\* Mutant: the loop stops on the total only, not on a short page.
ServerPageEnds_TotalOnly(page_len, limit, current_offset, total) ==
    current_offset >= total

\* server.py 1385, 1437, 1512, 1555: the page just added was the last one.
ServerPageEnds(page_len, limit, current_offset, total) ==
    page_len < limit \/ current_offset >= total

\* server.py 1366-1386, 1424-1438, 1499-1513, 1542-1556: the loop body on
\* the outcome r of its fetch.
AfterServerPage(a, r) ==
    LET req == Requested(a, a.limit, r)
    IN  CASE r.kind = "raise" ->
                [req EXCEPT !.pc = "error", !.result = ServerError(req, r.exc)]
          [] r.kind = "nokey" \/ (r.kind = "page" /\ r.items = <<>>) ->
                [req EXCEPT !.pc = "done", !.result = ResultOf(req)]
          [] OTHER ->
                LET acc == [req EXCEPT !.items = @ \o r.items,
                                       !.total = r.total,
                                       !.pages_fetched = @ + 1,
                                       !.current_offset = @ + a.limit]
                IN  IF ServerPageEnds(Len(r.items), a.limit,
                                      acc.current_offset, r.total)
                    THEN [acc EXCEPT !.pc = "done", !.result = ResultOf(acc)]
                    ELSE acc

\* server.py 1365: the only loop with a condition.
SearchGoesOn(a) == Len(a.items) < a.max_results

\* Mutant: the tool call clears the monitor's retained snapshot.
ServerStep_WritesSnapshot ==
    /\ agg.pc = "loop"
    /\ agg.tool \in ServerTools
    /\ IF agg.tool = "PaginatedSearch" /\ ~SearchGoesOn(agg)
       THEN agg' = [agg EXCEPT !.pc = "done", !.result = SearchResult(agg)]
       ELSE /\ agg.calls < MaxFetch
            /\ \E r \in Fetch(agg.backend, agg.tool, agg.current_offset,
                               agg.limit, agg.calls) :
                 agg' = AfterServerPage(agg, r)
    /\ _last_playback_state' = <<>>
    /\ UNCHANGED <<_notification_task, tasks, stopCall,
                   tickLog, lastTick, lastStart, cmp, call>>

\* One pass of a get-all loop of handle_call_tool: the loop condition,
\* the fetch and the body (the calls are synchronous).
ServerStep ==
    /\ agg.pc = "loop"
    /\ agg.tool \in ServerTools
    /\ IF agg.tool = "PaginatedSearch" /\ ~SearchGoesOn(agg)
       THEN agg' = [agg EXCEPT !.pc = "done", !.result = SearchResult(agg)]
       ELSE /\ agg.calls < MaxFetch
            /\ \E r \in Fetch(agg.backend, agg.tool, agg.current_offset,
                               agg.limit, agg.calls) :
                 agg' = AfterServerPage(agg, r)
    /\ UNCHANGED <<_notification_task, _last_playback_state, tasks, stopCall,
                   tickLog, lastTick, lastStart, cmp, call>>

IsTrack(item) == item # 0

\* fastmcp_server.py 480-489: the response of get_playlist_tracks.
FastResult(a) ==
    [items |-> a.items,
     total |-> IF a.backend.kind = "honest" THEN a.backend.size ELSE Len(a.items),
     limit |-> a.limit, offset |-> a.offset, returned |-> Len(a.items)]

\* fastmcp_server.py 101.
BatchLimit(a) ==
    IF Truthy(a.remaining) THEN Min(a.batch_size, a.remaining) ELSE a.batch_size

\* fastmcp_server.py 128.
FastPageEnds(page_len, batch_limit, next) ==
    page_len < batch_limit \/ ~next

\* fastmcp_server.py 134: the safety check.
PastCeiling(current_offset) == current_offset > SafetyCeiling

\* fastmcp_server.py 104-135: the loop body on the outcome r of its fetch.
AfterFastPage(a, r) ==
    LET req == Requested(a, BatchLimit(a), r)
    IN  CASE r.kind = "raise" ->
                [req EXCEPT !.pc = "error", !.result = FastError(req, r.exc)]
          [] r.kind = "page" /\ r.items = <<>> ->
                [req EXCEPT !.pc = "done", !.result = FastResult(req)]
          [] OTHER ->
                LET batch_tracks == SelectSeq(r.items, IsTrack)
                    rem == IF Truthy(a.remaining)
                           THEN a.remaining - Len(batch_tracks)
                           ELSE a.remaining
                    acc == [req EXCEPT !.items = @ \o batch_tracks,
                                       !.remaining = rem]
                    adv == [acc EXCEPT !.current_offset = @ + Len(r.items)]
                IN  IF Truthy(a.remaining) /\ rem <= 0
                    THEN [acc EXCEPT !.pc = "done", !.result = FastResult(acc)]
                    ELSE IF FastPageEnds(Len(r.items), BatchLimit(a), r.next)
                    THEN [acc EXCEPT !.pc = "done", !.result = FastResult(acc)]
                    ELSE IF PastCeiling(adv.current_offset)
                    THEN [adv EXCEPT !.pc = "done", !.result = FastResult(adv)]
                    ELSE adv

\* One pass of the loop of get_playlist_tracks_paginated; on its exit
\* get_playlist_tracks builds the response.
FastStep ==
    /\ agg.pc = "loop"
    /\ agg.tool = "FastPlaylist"
    /\ agg.calls < MaxFetch
    /\ \E r \in Fetch(agg.backend, agg.tool, agg.current_offset,
                       BatchLimit(agg), agg.calls) :
         agg' = AfterFastPage(agg, r)
    /\ UNCHANGED <<_notification_task, _last_playback_state, tasks, stopCall,
                   tickLog, lastTick, lastStart, cmp, call>>

NextAgg == ServerStep \/ FastStep

SpecAgg == InitAgg /\ [][NextAgg]_vars

(***************************************************************************)
(* _has_significant_change called on its own, over bounded field domains:  *)
(* every value of one field against a fixed rest, dicts that lack the      *)
(* numeric keys, and the two-key dict of a no-session sample.  old_state   *)
(* is <<>> for None and <<d>> for a dict d, as _last_playback_state is.    *)
(***************************************************************************)
BaseState ==
    [is_playing |-> "True", track_id |-> "A", device_name |-> "Phone",
     shuffle_state |-> "False", repeat_state |-> "off",
     volume_percent |-> 0, progress_ms |-> 0]

Volumes == {NoneNum, 0, 5, 6, 11}
Progresses == {NoneNum, 0, 10000, 10001, 20001}

SigStates ==
    {[BaseState EXCEPT !.is_playing = p, !.track_id = t, !.device_name = d,
                       !.shuffle_state = s, !.repeat_state = r] :
        p \in {"True", "False"}, t \in {"A", "None"},
        d \in {"Phone", "None"}, s \in {"False", "True"},
        r \in {"off", "track"}}
    \cup {[BaseState EXCEPT !.volume_percent = v, !.progress_ms = g] :
            v \in Volumes, g \in Progresses}
    \cup {[is_playing |-> p, track_id |-> t] :
            p \in {"True", "False"}, t \in {"A", "None"}}
    \cup {[is_playing |-> "True", track_id |-> "A", device_name |-> "Phone",
           shuffle_state |-> "False", repeat_state |-> "off"]}

NewCmp(old_state, new_state) ==
    [pc |-> "call", old_state |-> old_state, new_state |-> new_state,
     result |-> FALSE, exc |-> "None"]

InitSig ==
    /\ _notification_task = NoTask
    /\ _last_playback_state = <<>>
    /\ tasks = [t \in TaskIds |-> FreshTask]
    /\ stopCall = NoStop
    /\ tickLog = <<>>
    /\ lastTick = NoTick
    /\ lastStart = "none"
    /\ agg = AggIdle
    /\ cmp \in {NewCmp(o, n) :
                    o \in {<<>>} \cup {<<d>> : d \in SigStates},
                    n \in SigStates}
    /\ call = CallIdle

\* server.py 2002: with None for old_state, `old_state.get` raises
\* AttributeError; with a dict the function returns its verdict.
AfterCompare(c) ==
    IF c.old_state = <<>>
    THEN [c EXCEPT !.pc = "raised", !.exc = "AttributeError"]
    ELSE [c EXCEPT !.pc = "done",
                   !.result = _has_significant_change(c.old_state[1],
                                                      c.new_state)]

\* The call returns or raises.
Compare ==
    /\ cmp.pc = "call"
    /\ cmp' = AfterCompare(cmp)
    /\ UNCHANGED <<_notification_task, _last_playback_state, tasks, stopCall,
                   tickLog, lastTick, lastStart, agg, call>>

NextSig == Compare

SpecSig == InitSig /\ [][NextSig]_vars

(***************************************************************************)
(* The first observation: the monitor from its start, beside a direct call *)
(* of _has_significant_change with None for the previous state and a state *)
(* the monitor can build.                                                  *)
(***************************************************************************)
FirstStates == {MakeState(s) : s \in {x \in Samples : x.kind # "raise"}}

InitFirst ==
    /\ _notification_task = NoTask
    /\ _last_playback_state = <<>>
    /\ tasks = [t \in TaskIds |-> FreshTask]
    /\ stopCall = NoStop
    /\ tickLog = <<>>
    /\ lastTick = NoTick
    /\ lastStart = "none"
    /\ agg = AggIdle
    /\ cmp \in {NewCmp(<<>>, n) : n \in FirstStates}
    /\ call = CallIdle

NextFirst == NextMon \/ NextSig

SpecFirst == InitFirst /\ [][NextFirst]_vars

(***************************************************************************)
(* The monitor beside tool calls.  handle_call_tool and the tools of       *)
(* fastmcp_server.py run on the same event loop as the monitor task; the   *)
(* steps of a get-all call are interleaved here with the monitor's at      *)
(* every pass (the real interleavings, whole calls between two awaits of   *)
(* the monitor, are among them).                                           *)
(***************************************************************************)
IsoCalls ==
    {NewAgg("PaginatedSearch", 1, 0, 2, [kind |-> "honest", size |-> 3]),
     NewAgg("FastPlaylist", 2, 0, NoneNum, [kind |-> "honest", size |-> 3])}

InitIso ==
    /\ _notification_task = NoTask
    /\ _last_playback_state = <<>>
    /\ tasks = [t \in TaskIds |-> FreshTask]
    /\ stopCall = NoStop
    /\ tickLog = <<>>
    /\ lastTick = NoTick
    /\ lastStart = "none"
    /\ agg \in IsoCalls
    /\ cmp = CmpIdle
    /\ call = CallIdle

NextIso == NextMon \/ NextAgg

SpecIso == InitIso /\ [][NextIso]_vars

(***************************************************************************)
(* One tool call.  server.py: handle_list_tools advertises the tools,      *)
(* handle_call_tool dispatches on the name and answers; fastmcp_server.py: *)
(* each @mcp.tool() function.  A tool name is the pair of its first seven  *)
(* characters and the rest, which is what name[:7] and name[7:] take       *)
(* apart.                                                                  *)
(***************************************************************************)
\* server.py 138-145: ToolModel.as_tool names a tool "Spotify" + class name.
as_tool(cls) == <<"Spotify", cls>>

\* server.py 751-772: the tool classes handle_list_tools advertises.
ToolClasses ==
    {"Playback", "Search", "AdvancedSearch", "Queue", "GetInfo",
     "PlaylistManage", "PlaylistItems", "UserPlaylists", "PlaylistCover",
     "BatchTrackInfo", "BatchPlaylistOperations", "RecommendationEngine",
     "UserAnalytics", "PaginatedSearch", "PlaylistPagination",
     "LibraryOperations", "PlaylistAnalyzer", "ArtistDeepDive",
     "SmartPlaylistBuilder", "LibraryInsights"}

\* server.py 747-774.
handle_list_tools == {as_tool(cls) : cls \in ToolClasses}

\* server.py 801-1841: the case labels of `match name[7:]`.
CaseLabels ==
    {"Playback", "Search", "AdvancedSearch", "Queue", "GetInfo",
     "PlaylistManage", "PlaylistItems", "UserPlaylists", "PlaylistCover",
     "BatchTrackInfo", "BatchPlaylistOperations", "Recommendations",
     "UserAnalytics", "PaginatedSearch", "PlaylistPagination",
     "LibraryOperations", "PlaylistAnalyzer", "ArtistDeepDive",
     "SmartPlaylistBuilder", "LibraryInsights"}

\* server.py 800, 1926: the branch `match name[7:]` takes; "_" is `case _`.
MatchCase(rest) == IF rest \in CaseLabels THEN rest ELSE "_"

\* fastmcp_server.py 142-536: the @mcp.tool() functions.
FastTools ==
    {"playback_control", "search_tracks", "add_to_queue", "get_queue",
     "get_track_info", "get_artist_info", "get_playlist_info",
     "create_playlist", "add_tracks_to_playlist", "get_user_playlists",
     "get_playlist_tracks", "remove_tracks_from_playlist",
     "modify_playlist_details"}

\* server.py 824-835, 871-882, 897-947, 990-999: the branches whose backend
\* call sits in an inner `try ... except SpotifyException` (of Playback,
\* the "start" action only).
InnerCatch(branch, action) ==
    \/ branch \in {"Search", "AdvancedSearch", "GetInfo"}
    \/ branch = "Playback" /\ action = "start"

\* server.py 924-939, 1676-1689: the branches with an optional
\* recommendations step inside `try ... except Exception`.
OptionalRecs == {"AdvancedSearch", "PlaylistAnalyzer"}

\* A response: the exception that leaves the call ("None": it returned),
\* the number of content items returned and what the content is:
\* "result", "error_json" (SpotifyMCPError.to_mcp_error, errors.py 68-84),
\* "error_text" (server.py 1943-1946) or "unknown_tool" (server.py 1929).
Returned(kind) == [raised |-> "None", content |-> 1, kind |-> kind]

Raised(exc) == [raised |-> exc, content |-> 0, kind |-> "none"]

NoResponse == [raised |-> "None", content |-> 0, kind |-> "none"]

\* Mutant: handle_call_tool without its `except SpotifyException` clauses.
HandleError_Reraise(branch, action, exc) == Raised(exc)

\* server.py 835-837 (also 882, 947, 999), 1940-1950: a SpotifyException of
\* the branch's backend call is answered by the inner handler with one
\* error content, else by the outer handler with one text content; any
\* other exception is logged and re-raised.
HandleError(branch, action, exc) ==
    IF exc = "SpotifyException"
    THEN IF InnerCatch(branch, action)
         THEN Returned("error_json")
         ELSE Returned("error_text")
    ELSE Raised(exc)

\* errors.py 224-233, fastmcp_server.py 185-186 (and every other tool): a
\* SpotifyException becomes a ValueError; nothing else is caught.
convert_spotify_error(exc) ==
    IF exc = "SpotifyException" THEN Raised("ValueError") ELSE Raised(exc)

\* A call at its entry.  `recs` is the include_recommendations argument,
\* `action` the action argument (of Playback); `main` and `opt` record what
\* the backend did in the branch's call and in the recommendations step.
NewCall(srv, name, action, recs) ==
    [pc |-> "entry", srv |-> srv, name |-> name, action |-> action,
     recs |-> recs, branch |-> "", main |-> "none", opt |-> "none",
     response |-> NoResponse]

\* The names a client may send: the advertised ones, the label of the
\* unadvertised branch and a name of no tool.
ServerNames ==
    handle_list_tools
        \cup {<<"Spotify", "Recommendations">>, <<"Spotify", "Nope">>}

ToolCalls ==
    {NewCall("server", n, a, r) :
        n \in ServerNames, a \in {"get", "start"}, r \in BOOLEAN}
      \cup {NewCall("fastmcp", <<"", f>>, "get", FALSE) : f \in FastTools}

InitTool ==
    /\ _notification_task = NoTask
    /\ _last_playback_state = <<>>
    /\ tasks = [t \in TaskIds |-> FreshTask]
    /\ stopCall = NoStop
    /\ tickLog = <<>>
    /\ lastTick = NoTick
    /\ lastStart = "none"
    /\ agg = AggIdle
    /\ cmp = CmpIdle
    /\ call \in ToolCalls

Outcomes == {"ok"} \cup ExcKinds

\* server.py 797-800, 1926-1938: the name is matched; an unmatched name is
\* answered with the text "Unknown tool: <name>".
Dispatch ==
    /\ call.pc = "entry"
    /\ call.srv = "server"
    /\ call.name[1] = "Spotify"
    /\ LET branch == MatchCase(call.name[2])
       IN  call' = IF branch = "_"
                   THEN [call EXCEPT !.pc = "done", !.branch = branch,
                                     !.response = Returned("unknown_tool")]
                   ELSE [call EXCEPT !.pc = "main", !.branch = branch]
    /\ UNCHANGED <<_notification_task, _last_playback_state, tasks, stopCall,
                   tickLog, lastTick, lastStart, agg, cmp>>

\* The branch's backend call (e.g. server.py 917-921, 1626-1627) and what
\* follows it: the result, the error handlers, or the recommendations step.
BranchCall ==
    /\ call.pc = "main"
    /\ call.srv = "server"
    /\ \E r \in Outcomes :
          call' =
            IF r # "ok"
            THEN [call EXCEPT !.pc = "done", !.main = r,
                    !.response = HandleError(call.branch, call.action, r)]
            ELSE IF call.branch \in OptionalRecs /\ call.recs
            THEN [call EXCEPT !.pc = "recs", !.main = r]
            ELSE [call EXCEPT !.pc = "done", !.main = r,
                              !.response = Returned("result")]
    /\ UNCHANGED <<_notification_task, _last_playback_state, tasks, stopCall,
                   tickLog, lastTick, lastStart, agg, cmp>>

\* server.py 925-939, 1678-1689: the recommendations call; whatever it
\* raises is logged and the branch returns its result.
RecsCall ==
    /\ call.pc = "recs"
    /\ \E r \in Outcomes :
          call' = [call EXCEPT !.pc = "done", !.opt = r,
                               !.response = Returned("result")]
    /\ UNCHANGED <<_notification_task, _last_playback_state, tasks, stopCall,
                   tickLog, lastTick, lastStart, agg, cmp>>

\* fastmcp_server.py 142-536: a tool function, its backend call inside
\* `try ... except SpotifyException as e: raise convert_spotify_error(e)`.
FastTool ==
    /\ call.pc = "entry"
    /\ call.srv = "fastmcp"
    /\ \E r \in Outcomes :
          call' = [call EXCEPT !.pc = "done", !.branch = call.name[2],
                     !.main = r,
                     !.response = IF r = "ok" THEN Returned("result")
                                  ELSE convert_spotify_error(r)]
    /\ UNCHANGED <<_notification_task, _last_playback_state, tasks, stopCall,
                   tickLog, lastTick, lastStart, agg, cmp>>

NextTool == Dispatch \/ BranchCall \/ RecsCall \/ FastTool

SpecTool == InitTool /\ [][NextTool]_vars

(***************************************************************************)
(* Properties of the monitor.                                              *)
(***************************************************************************)
ActiveTasks == {t \in TaskIds : tasks[t].st = "pending"}

LoopRunning ==
    _notification_task # NoTask /\ tasks[_notification_task].st = "pending"

\* A step in which a task ran one iteration of the loop.
TickStep == Len(tickLog') = Len(tickLog) + 1

\* C2 (idempotent start): whatever start() and stop() calls were made, at
\* most one monitor task is not done; and a start() issued while the task
\* of the handle is not done creates no task and keeps the handle.
C2_IdempotentStart ==
    /\ [](Cardinality(ActiveTasks) <= 1)
    /\ [][start_notifications /\ LoopRunning
            => UNCHANGED <<_notification_task, tasks>>]_vars

\* C2 witness: start() was called on a running monitor and one loop runs.
C2_Witness ==
    /\ lastStart = "kept"
    /\ LoopRunning
    /\ Cardinality(ActiveTasks) = 1

\* C3 (notify exactly on significance): in every tick whose sample was
\* obtained, the sink is called iff there was no retained snapshot or
\* _has_significant_change(retained, sampled); it is called at most once
\* and only with the topic spotify://playback/current.
C3_NotifyIffSignificant ==
    [][TickStep /\ lastTick'.ok
        => /\ (lastTick'.sink # <<>>)
                <=> \/ Len(_last_playback_state) = 0
                    \/ _has_significant_change(_last_playback_state[1],
                                                lastTick'.state[1])
           /\ Len(lastTick'.sink) <= 1
           /\ tickLog'[Len(tickLog')].calls = Len(lastTick'.sink)
           /\ \A i \in 1..Len(lastTick'.sink) :
                lastTick'.sink[i] = "spotify://playback/current"]_vars

\* C3 witness: a tick found a significant change against a retained
\* snapshot and called the sink, and an earlier tick of the task did not.
C3_Witness ==
    /\ lastTick.ok
    /\ lastTick.sink = <<"spotify://playback/current">>
    /\ lastTick.outcome = "inflight"
    /\ Len(_last_playback_state) = 1
    /\ \E i \in 1..Len(tickLog) : tickLog[i].ok /\ tickLog[i].calls = 0

\* The most recent tick ran to its sleep (it is not suspended in the sink
\* call and was not cancelled there).
TickComplete == lastTick.outcome \in {"none", "delivered", "failed"}

\* C4 (current always replaces previous), as claimed: after every tick in
\* which a sample was obtained and compared, the retained snapshot equals
\* the snapshot sampled in that tick.
C4_CurrentReplacesPrevious ==
    lastTick.ok /\ TickComplete => _last_playback_state = lastTick.state

\* C5 (resilience): a failed tick calls the sink zero times; a task is
\* done only if its cancellation was requested, and only stop() requests
\* one; so after k failed ticks and a successful one the task of the
\* handle is still pending unless stop() cancelled it.
C5_Resilience ==
    /\ [](/\ \A i \in 1..Len(tickLog) :
                ~tickLog[i].ok => tickLog[i].calls = 0
          /\ \A t \in TaskIds :
                tasks[t].st = "done" => tasks[t].must_cancel
          /\ (/\ _notification_task # NoTask
               /\ ~tasks[_notification_task].must_cancel)
                => tasks[_notification_task].st = "pending")
    /\ [][\A t \in TaskIds :
            ~tasks[t].must_cancel /\ tasks'[t].must_cancel
                => stop_notifications]_vars

\* C5 witness: two failed ticks, then a successful one, and the loop runs.
C5_Witness ==
    /\ Len(tickLog) = 3
    /\ ~tickLog[1].ok /\ ~tickLog[2].ok /\ tickLog[3].ok
    /\ LoopRunning
    /\ ~tasks[_notification_task].must_cancel

\* C6 (backoff): a tick whose sampling fails leaves the retained snapshot
\* unchanged and calls the sink zero times; a task asleep after a failed
\* tick sleeps 10 s, after a successful one 5 s.
C6_Backoff ==
    /\ [][TickStep /\ ~lastTick'.ok
            => /\ _last_playback_state' = _last_playback_state
               /\ lastTick'.sink = <<>>
               /\ tickLog'[Len(tickLog')].calls = 0]_vars
    /\ [](\A t \in TaskIds :
            tasks[t].st = "pending" /\ tasks[t].pc = "sleep"
                => tasks[t].dur = IF lastTick.ok THEN 5 ELSE 10)

\* C6 witness: a tick failed with a snapshot retained, and the task sleeps.
C6_Witness ==
    /\ Len(tickLog) > 0
    /\ ~lastTick.ok
    /\ Len(_last_playback_state) = 1
    /\ LoopRunning
    /\ tasks[_notification_task].pc = "sleep"
    /\ tasks[_notification_task].dur = 10

\* C7 (stop): stop() on a task that is not done requests its cancellation
\* and returns only once that task is done; unless a start() created a new
\* task after that, no task is then active; a done task never changes
\* again and every tick (hence every sink call) is made by an active task
\* whose cancellation was not requested; stop() without a live task
\* changes nothing and returns at once; every stop() that awaits returns.
C7_Stop ==
    /\ [](stopCall.pc = "idle" /\ stopCall.task # NoTask
            => /\ tasks[stopCall.task].st = "done"
               /\ (_notification_task = stopCall.task => ActiveTasks = {}))
    /\ [][stop_notifications /\ LoopRunning
            => /\ tasks'[_notification_task].must_cancel
               /\ stopCall'.pc = "await"
               /\ stopCall'.task = _notification_task]_vars
    /\ [][\A t \in TaskIds : tasks[t].st = "done" => tasks'[t] = tasks[t]]_vars
    /\ [][TickStep
            => \E t \in ActiveTasks : ~tasks[t].must_cancel]_vars
    /\ [][stop_notifications /\ ~LoopRunning
            => /\ stopCall'.pc = "idle"
               /\ UNCHANGED <<_notification_task, _last_playback_state,
                              tasks, tickLog, lastTick>>]_vars
    /\ (stopCall.pc = "await" ~> stopCall.pc = "idle")

\* C7 witness: a monitor that ran ticks was stopped and stop() returned.
C7_Witness ==
    /\ stopCall.pc = "idle"
    /\ stopCall.task # NoTask
    /\ _notification_task = stopCall.task
    /\ Len(tickLog) > 0
    /\ ActiveTasks = {}

(***************************************************************************)
(* Properties of the aggregations.                                         *)
(***************************************************************************)
\* The call returned a response built from an honest backend's pages.
HonestDone == agg.pc = "done" /\ agg.backend.kind = "honest"

\* The items the backend holds from the start offset of the call.
Available == Max(agg.backend.size - agg.offset, 0)

\* The result limit of the call: max_results of PaginatedSearch, limit of
\* get_playlist_tracks (None: the documented 10,000), none for the others.
MaxItems ==
    CASE agg.tool = "PaginatedSearch" -> agg.max_results
      [] agg.tool = "FastPlaylist" ->
            IF agg.limit = NoneNum THEN SafetyCeiling ELSE agg.limit
      [] OTHER -> Available

MarkedTruncated ==
    "truncated" \in DOMAIN agg.result /\ agg.result.truncated

\* C1 (termination), as claimed, in the form a finite run refutes: an
\* aggregation with a page size of at least 1 issues no fetch call more
\* than 10,000 items past its start offset; for the loops of
\* handle_call_tool, whose offset advances by the page size per call, that
\* is at most 10000 / page size + 1 fetch calls.
C1_Termination ==
    agg.pc # "idle" /\ agg.calls > 0 /\ agg.lastReq.limit >= 1
        => agg.lastReq.offset - agg.offset <= SafetyCeiling

\* C8 (exactness below the limit), as claimed: when an honest backend holds
\* no more items from the start offset than the result limit, the response
\* holds exactly those items in remote order and is not marked truncated.
C8_Exactness ==
    HonestDone /\ Available <= MaxItems
        => /\ agg.result.items = Range(agg.offset + 1, agg.backend.size)
           /\ ~MarkedTruncated

\* C9 (truncation), as claimed: when an honest backend holds more items
\* from the start offset than the result limit, the response holds exactly
\* that many items and is marked truncated.
C9_Truncation ==
    HonestDone /\ Available > MaxItems
        => /\ Len(agg.result.items) = MaxItems
           /\ MarkedTruncated

\* C10 (short-page termination): once a fetch returned fewer items than the
\* page size it asked for, the call has returned, whatever the backend
\* reported as total or next and whether or not the result limit is reached.
C10_ShortPageEnds ==
    agg.pc # "idle" /\ agg.lastPage.kind = "page"
                    /\ agg.lastPage.len < agg.lastReq.limit
        => agg.pc = "done"

\* C10 witness: a second page came back short but not empty, with a total
\* still above the offset and fewer items than max_results accumulated.
C10_Witness ==
    /\ agg.pc = "done"
    /\ agg.tool = "PaginatedSearch"
    /\ agg.calls = 2
    /\ agg.lastPage.kind = "page"
    /\ agg.lastPage.len > 0
    /\ agg.lastPage.len < agg.lastReq.limit
    /\ agg.current_offset < agg.total
    /\ Len(agg.items) < agg.max_results

\* C11 (offset monotonicity), as claimed: the offset of every fetch call is
\* the start offset plus the number of items the earlier fetch calls of the
\* aggregation returned (the calls are synchronous, one after another).
C11_OffsetMonotonic ==
    agg.pc # "idle" /\ agg.calls > 0
        => agg.lastReq.offset = agg.offset + agg.fetched - agg.lastPage.len

\* C12 (all-or-nothing on fetch failure): once a page fetch has raised, the
\* aggregation is over (no retry of the page, no further fetch: nothing of
\* the call changes any more) and its response holds no item, whatever was
\* accumulated from earlier pages.
C12_AllOrNothing ==
    /\ [](agg.pc # "idle" /\ agg.lastPage.kind = "raise"
            => /\ agg.pc = "error"
               /\ "items" \notin DOMAIN agg.result)
    /\ [][agg.pc = "error" => agg' = agg]_vars

\* C12 witness: the third fetch raised after two pages were accumulated.
C12_Witness ==
    /\ agg.pc = "error"
    /\ agg.calls = 3
    /\ agg.pages_fetched = 2
    /\ Len(agg.items) >= 2
    /\ "items" \notin DOMAIN agg.result

\* C13 (fetch errors reach the caller unchanged), as claimed: the call
\* aborted by a fetch error ends by raising the exception the fetcher
\* raised.
C13_ErrorUnchanged ==
    agg.pc = "error" => agg.result.raised = agg.lastPage.exc

\* C17 (safety limit of get_playlist_tracks), as claimed: a call with
\* limit None returns at most 10,000 tracks, whatever the start offset and
\* the size of the playlist.
C17_SafetyLimit ==
    agg.pc = "done" /\ agg.tool = "FastPlaylist" /\ agg.limit = NoneNum
        => Len(agg.result.items) <= 10000

\* C18 (limit of get_playlist_tracks), as claimed: a call with a limit
\* other than None (0 included) returns at most that many tracks, whatever
\* the backend returns, and `returned` is the number of items returned.
C18_AtMostLimit ==
    agg.pc = "done" /\ agg.tool = "FastPlaylist" /\ agg.limit >= 0
        => /\ Len(agg.result.items) <= agg.limit
           /\ agg.result.returned = Len(agg.result.items)

\* C19 (result limit of PaginatedSearch): a get_all_pages call returns at
\* most max_results items and at most 10,000, whatever the backend returns;
\* returned_items is the length of the returned list; and every fetch call
\* is issued with fewer than max_results items accumulated.
C19_SearchAtMostMax ==
    /\ [](agg.pc = "done" /\ agg.tool = "PaginatedSearch"
            => /\ Len(agg.result.items) <= agg.max_results
               /\ Len(agg.result.items) <= 10000
               /\ agg.result.returned_items = Len(agg.result.items))
    /\ [][agg.pc # "idle" /\ agg.tool = "PaginatedSearch"
                          /\ agg'.calls > agg.calls
            => Len(agg.items) < agg.max_results]_vars

\* C19 witness: with max_results above the cap, 10,000 items of a larger
\* result set were accumulated and returned.
C19_Witness ==
    /\ agg.pc = "done"
    /\ agg.tool = "PaginatedSearch"
    /\ agg.backend.kind = "honest"
    /\ agg.backend.size > 10000
    /\ Len(agg.result.items) = 10000
    /\ agg.result.returned_items = 10000

\* C16 (a sink failure is confined to its tick): when the sink call of a
\* tick raises, the task stays pending and goes to the regular 5 s wait,
\* the tick makes no further sink call and the sampled state is retained;
\* and a later tick calls the sink only if its sample differs significantly
\* from that state.
C16_SinkFailureConfined ==
    /\ [][lastTick.outcome = "inflight" /\ lastTick'.outcome = "failed"
            => /\ LoopRunning'
               /\ tasks'[_notification_task].pc = "sleep"
               /\ tasks'[_notification_task].dur = 5
               /\ tickLog' = tickLog
               /\ tickLog[Len(tickLog)].calls = 1
               /\ _last_playback_state' = lastTick.state]_vars
    /\ [][TickStep /\ lastTick.outcome = "failed" /\ lastTick'.ok
                   /\ ~_has_significant_change(lastTick.state[1],
                                               lastTick'.state[1])
            => lastTick'.sink = <<>>]_vars

\* C16 witness: the sink call of the second tick failed; the loop runs,
\* asleep for 5 s, with the state of that tick retained.
C16_Witness ==
    /\ Len(tickLog) = 2
    /\ lastTick.outcome = "failed"
    /\ LoopRunning
    /\ tasks[_notification_task].pc = "sleep"
    /\ tasks[_notification_task].dur = 5
    /\ _last_playback_state = lastTick.state

\* C20 (monitor isolation): a step of a tool call leaves the retained
\* snapshot, the task handle and the tasks as they are; the retained
\* snapshot changes only in a step of the monitor loop (the one after its
\* sink call) and the handle only in start_notifications.
C20_MonitorIsolation ==
    /\ [][agg' # agg
            => UNCHANGED <<_last_playback_state, _notification_task, tasks,
                           lastTick, tickLog>>]_vars
    /\ [][_last_playback_state' # _last_playback_state
            => /\ \E t \in TaskIds : SendDone(t)
               /\ _last_playback_state' = lastTick.state]_vars
    /\ [][_notification_task' # _notification_task
            => start_notifications]_vars

\* C20 witness: a tool call ran to its end beside a monitor that made a
\* notifying tick and then a quiet one against the retained snapshot.
C20_Witness ==
    /\ agg.pc = "done"
    /\ agg.calls >= 2
    /\ Len(tickLog) = 2
    /\ tickLog[1].calls = 1
    /\ lastTick.ok
    /\ lastTick.sink = <<>>
    /\ Len(_last_playback_state) = 1

(***************************************************************************)
(* Properties of the change detector.                                      *)
(***************************************************************************)
\* The value a field counts as: absent ("None") when the key is missing.
FieldOf(state, k) == IF k \in DOMAIN state THEN state[k] ELSE "None"

\* The value a numeric field counts as: 0 when missing or null.
NumOf(state, k) ==
    IF k \notin DOMAIN state \/ state[k] = NoneNum THEN 0 ELSE state[k]

Dist(a, b) == IF a < b THEN b - a ELSE a - b

\* C14 (rule of the change detector): the call returns true iff is_playing,
\* track_id, device_name, shuffle or repeat differ, or the volumes differ
\* by more than 5, or the progresses differ by more than 10000 ms; a
\* missing or null number counts as 0 and both thresholds are strict.
C14_SignificantRule ==
    cmp.pc = "done"
        => (cmp.result
              <=> \/ \E k \in {"is_playing", "track_id", "device_name",
                                "shuffle_state", "repeat_state"} :
                        FieldOf(cmp.old_state[1], k) # FieldOf(cmp.new_state, k)
                  \/ Dist(NumOf(cmp.old_state[1], "volume_percent"),
                          NumOf(cmp.new_state, "volume_percent")) > 5
                  \/ Dist(NumOf(cmp.old_state[1], "progress_ms"),
                          NumOf(cmp.new_state, "progress_ms")) > 10000)

\* C14 witness: a null volume against 5 and a missing progress against
\* 10000 (both exactly at the threshold) are not significant.
C14_Witness ==
    /\ cmp.pc = "done"
    /\ ~cmp.result
    /\ GetNum(cmp.old_state[1], "volume_percent") = NoneNum
    /\ GetNum(cmp.new_state, "volume_percent") = 5
    /\ "progress_ms" \notin DOMAIN cmp.old_state[1]
    /\ GetNum(cmp.new_state, "progress_ms") = 10000

Reported(exc) ==
    IF exc = "SpotifyException"
    THEN IF call.srv = "server"
         THEN /\ call.response.raised = "None"
              /\ call.response.content = 1
              /\ call.response.kind \in {"error_json", "error_text"}
         ELSE call.response.raised = "ValueError"
    ELSE call.response.raised = exc

\* C21 as stated: whatever backend call of a tool raises, a SpotifyException
\* never leaves the call as a SpotifyException (one error text result from
\* handle_call_tool, a ValueError from a FastMCP tool) and an exception of
\* any other type leaves the call, re-raised.
C21_ErrorsReported ==
    call.pc = "done" =>
        \A exc \in {call.main, call.opt} \cap ExcKinds : Reported(exc)

\* C21, amended: the above holds for the tool's own backend call; an
\* exception of the optional recommendations step of AdvancedSearch and
\* PlaylistAnalyzer, of any type, is swallowed and the result is returned.
C21_ErrorsReportedButRecs ==
    call.pc = "done" =>
        /\ call.main \in ExcKinds => Reported(call.main)
        /\ call.opt \in ExcKinds =>
              /\ call.branch \in OptionalRecs
              /\ call.response = Returned("result")
        /\ call.response.raised # "SpotifyException"

C21_Witness ==
    /\ call.pc = "done"
    /\ call.srv = "server"
    /\ call.main = "SpotifyException"
    /\ call.response = Returned("error_text")


\* C30: every tool handle_list_tools advertises is dispatched to a branch
\* of handle_call_tool: a call by an advertised name is never answered
\* with "Unknown tool".
C30_ListedDispatchable ==
    call.pc = "done" /\ call.srv = "server" /\ call.name \in handle_list_tools
        => call.response.kind # "unknown_tool"

(***************************************************************************)
(* Page requests and the page count.                                       *)
(***************************************************************************)
\* The service's largest page of the collection a tool pages through.
ServiceMax(tool) ==
    IF tool \in {"PlaylistPagination", "FastPlaylist"}
    THEN PlaylistMaxLimit
    ELSE SearchMaxLimit

\* C22: every page request a paginating tool issues asks for a page of at
\* least 1 and at most the service maximum of its collection, whatever
\* limit the caller gave (0 included).
C22_PageSizeInRange ==
    agg.pc # "idle" /\ agg.calls > 0 =>
        /\ agg.lastReq.limit >= 1
        /\ agg.lastReq.limit <= ServiceMax(agg.tool)

\* C23: the pages_fetched a get-all aggregation of handle_call_tool reports
\* is the number of page fetch calls it made, whatever the backend
\* returned (an empty first or later page included).
C23_PagesFetchedCounts ==
    agg.pc = "done" /\ agg.tool \in ServerTools =>
        agg.result.pages_fetched = agg.calls

(***************************************************************************)
(* The monitor: normal progression, cancellation, no-session samples.      *)
(***************************************************************************)
\* One loop has run since the server started and nothing has stopped it.
SingleLoop ==
    /\ \A t \in TaskIds : t # 1 => tasks[t].st = "unborn"
    /\ tasks[1].st = "pending"
    /\ ~tasks[1].must_cancel
    /\ stopCall.pc = "idle"

\* C24: while every sample is obtained and each differs from the one before
\* it in progress_ms only, by at most 10000 ms, no tick after the first
\* calls the sink.
C24_NormalProgressionSilent ==
    SingleLoop /\ lastTick.calm = "steady" => lastTick.sink = <<>>

\* C25: a cancellation takes effect only while the loop sleeps: no tick is
\* ended by it between its sink call and the update of the retained
\* snapshot (a tick that called the sink always retains its state).
C25_NoTickInterrupted ==
    /\ lastTick.outcome # "cancelled"
    /\ \A t \in TaskIds :
          tasks[t].st = "pending" /\ tasks[t].must_cancel
              => tasks[t].pc \in {"created", "sleep"}

\* C28: a start() that ran while a stop() had cancelled the loop and was
\* still awaiting its end is not lost: once the stop() has returned too,
\* exactly one loop is active and it is the one the handle names.
C28_StartNeverLost ==
    stopCall.pc = "idle" /\ stopCall.started =>
        Cardinality(ActiveTasks) = 1 /\ LoopRunning

\* C26: a tick whose sample is None (no active session) is a successful
\* tick: its state is {is_playing: False, track_id: None} and nothing else,
\* the task then sleeps the poll interval and not the backoff, and a run of
\* consecutive None samples calls the sink at most once.
C26_NoSessionSample ==
    /\ lastTick.kind = "none" =>
          /\ lastTick.ok
          /\ lastTick.state = <<[is_playing |-> "False", track_id |-> "None"]>>
          /\ \A t \in TaskIds :
                tasks[t].st = "pending" /\ tasks[t].pc = "sleep"
                    => tasks[t].dur = PollInterval
    /\ lastTick.none_calls <= 1

(***************************************************************************)
(* The detector as a relation.                                             *)
(***************************************************************************)
\* C27: _has_significant_change is symmetric and irreflexive on state
\* dicts, states with missing fields included: the verdict on (old, new) is
\* the verdict on (new, old), and a state is never a significant change of
\* itself.
C27_SymmetricIrreflexive ==
    cmp.pc = "done" =>
        /\ cmp.result = _has_significant_change(cmp.new_state,
                                                cmp.old_state[1])
        /\ cmp.old_state[1] = cmp.new_state => ~cmp.result

\* C27 witness: a significant change was found between a state without
\* volume and progress fields and a state that has them.
C27_Witness ==
    /\ cmp.pc = "done"
    /\ cmp.result
    /\ "volume_percent" \notin DOMAIN cmp.old_state[1]
    /\ GetNum(cmp.new_state, "progress_ms") > ProgressThreshold
    /\ Get(cmp.old_state[1], "track_id") = Get(cmp.new_state, "track_id")
    /\ Get(cmp.old_state[1], "is_playing") = Get(cmp.new_state, "is_playing")

\* C29: the retained snapshot is written only by a tick that calls the
\* sink: outside such a tick it is absent or it is the state sampled by the
\* most recent tick that attempted a notification.
C29_SnapshotOfLastAttempt ==
    lastTick.outcome # "inflight" =>
        \/ _last_playback_state = <<>>
        \/ _last_playback_state = lastTick.attempt
====
